---- MODULE Spec2Model ----
(***************************************************************************)
(* Model of translate-script.py: an XML document is parsed, its            *)
(* translatable strings are collected, translated in batches by an         *)
(* external translator, written back into the tree and serialized.         *)
(*                                                                         *)
(* Strings are sequences of one-character strings.  The character          *)
(* "hellip" stands for the horizontal ellipsis U+2026.                     *)
(***************************************************************************)
EXTENDS Integers, Sequences, FiniteSets, TLC

VARIABLES
    pc,                 \* position of the run in main / translate_xml_to_urdu
    argv,               \* sys.argv, argv[1] being the script name
    input_xml,          \* what parsing the input file yields: a tree, or Malformed
    clock,              \* what datetime.now() returns when the run reads it
    batch_size,         \* batch_translate's batch_size parameter
    input_file,         \* translate_xml_to_urdu's input_file
    output_file,        \* translate_xml_to_urdu's output_file (None when not given)
    tree,               \* the ElementTree being processed (NoTree before parsing)
    parsed,             \* history: the tree as it was parsed
    translations_needed,\* the collected (text, element, attr_name) tuples
    texts_to_translate, \* the strings handed to batch_translate
    i,                  \* batch_translate's loop index (0-based, as in the code)
    translations,       \* batch_translate's accumulator
    translated_texts,   \* what batch_translate returned
    calls,              \* history: the batches sent to translator.translate
    outcomes,           \* history: the outcome of each loop iteration
    log,                \* history: "call" and "sleep" events in order
    messages,           \* history: what was printed that the claims speak of
    written             \* the output file: NoFile, or the serialized tree

vars == <<pc, argv, input_xml, clock, batch_size, input_file, output_file,
          tree, parsed, translations_needed, texts_to_translate, i, translations,
          translated_texts, calls, outcomes, log, messages, written>>

\* ------------------------------------------------------------------ bounds
\* The largest number of nodes of an input document.
MaxNodes == 3
\* The largest batch size tried besides the default one.
MaxBatch == 3

\* batch_translate's default batch size.
DefaultBatchSize == 100

BatchSizes == (1..MaxBatch) \cup {DefaultBatchSize}

\* ----------------------------------------------------------------- strings
None == <<"None">>
\* No tree at all: a tree has at least its root node.
NoTree == <<>>
\* The output file does not exist.
NoFile == <<>>
\* The input file does not parse.
Malformed == <<>>

S1(a) == <<a>>
S2(a, b) == <<a, b>>
S3(a, b, c) == <<a, b, c>>

\* Python's truth value of an optional string: None and '' are false.
Truthy(s) == s # None /\ s # <<>>

\* c.isspace() for the characters of the model.
IsSpace(c) == c = " "

\* '%' in s
HasPercent(s) == \E k \in 1..Len(s) : s[k] = "%"

RECURSIVE LStrip(_)
LStrip(s) == IF s # <<>> /\ IsSpace(Head(s)) THEN LStrip(Tail(s)) ELSE s

RECURSIVE RStrip(_)
RStrip(s) ==
    IF s # <<>> /\ IsSpace(s[Len(s)]) THEN RStrip(SubSeq(s, 1, Len(s) - 1)) ELSE s

\* str.strip()
Strip(s) == RStrip(LStrip(s))

\* str.replace('…', '...')
RECURSIVE ReplaceEllipsis(_)
ReplaceEllipsis(s) ==
    IF s = <<>> THEN <<>>
    ELSE IF Head(s) = "hellip" THEN <<".", ".", ".">> \o ReplaceEllipsis(Tail(s))
    ELSE <<Head(s)>> \o ReplaceEllipsis(Tail(s))

clean_text(text) == IF Truthy(text) THEN ReplaceEllipsis(text) ELSE text

\* The condition that guards the collection of a text, a tail or an
\* attribute value: value and value.strip() and '%' not in value.
IsTranslatableNoPercentCheck(value) == Truthy(value) /\ Truthy(Strip(value))

IsTranslatable(value) ==
    Truthy(value) /\ Truthy(Strip(value)) /\ ~HasPercent(value)

ExcludedAttrs == {"name", "id", "identifier"}

\* ---------------------------------------------------------------- documents
\* A tree is a function from node ids 1..n to nodes, node 1 being the root.
\* A node is [tag, attrib, text, tail, children]: attrib is the ordered
\* mapping of Element.attrib as a sequence of [name, value], children the
\* ordered sequence of the child node ids.
Attr(n, v) == [name |-> n, value |-> v]

\* The contents a node of an input document may have.
NodeKinds ==
    { [tag |-> "resources", attrib |-> <<Attr("lang", S1(" "))>>,
       text |-> S1(" "), tail |-> None],
      [tag |-> "string",
       attrib |-> <<Attr("name", S1("a")), Attr("label", S3(" ", "a", "hellip"))>>,
       text |-> None, tail |-> None],
      [tag |-> "string", attrib |-> <<Attr("text", S1("b"))>>,
       text |-> S2("%", "d"), tail |-> S1(" ")],
      [tag |-> "item",
       attrib |-> <<Attr("identifier", S1("a")), Attr("tail", S1("b"))>>,
       text |-> <<>>, tail |-> S2("%", "s")],
      [tag |-> "plurals",
       attrib |-> <<Attr("id", S3("a", " ", "b")), Attr("title", S2("%", "a"))>>,
       text |-> S1("a"), tail |-> S3(" ", "b", " ")] }

\* ElementTree gives the root element no tail.
RootKinds == {k \in NodeKinds : k.tail = None}

\* parent[k] is the parent of node k (0 for the root); a node's children are
\* ordered by id.
Shapes(n) ==
    {p \in [1..n -> 0..n] : p[1] = 0 /\ \A k \in 2..n : p[k] \in 1..(k - 1)}

ChildrenOf(p, n, k) ==
    LET IsChild(c) == p[c] = k
    IN  SelectSeq([c \in 1..n |-> c], IsChild)

MkTree(p, f, n) ==
    [k \in 1..n |->
        [tag |-> f[k].tag, attrib |-> f[k].attrib, text |-> f[k].text,
         tail |-> f[k].tail, children |-> ChildrenOf(p, n, k)]]

DocsOfSize(n) ==
    {MkTree(p, f, n) :
        p \in Shapes(n),
        f \in {g \in [1..n -> NodeKinds] : g[1] \in RootKinds}}

Docs == UNION {DocsOfSize(n) : n \in 1..MaxNodes}

\* What "preserving the structure" speaks of: the nodes, their tags, their
\* attribute names and the order of their children.
AttrNames(attrib) == [k \in 1..Len(attrib) |-> attrib[k].name]

Structure(t) ==
    [k \in DOMAIN t |->
        [tag |-> t[k].tag, attrs |-> AttrNames(t[k].attrib),
         children |-> t[k].children]]

\* ---------------------------------------------------------------- collector
\* A collected tuple (text, element, attr_name).  The field origin records
\* which of the three append statements produced the tuple.
Unit(text, elem, attr_name, origin) ==
    [text |-> text, element |-> elem, attr_name |-> attr_name, origin |-> origin]

CollectText(t, elem) ==
    IF IsTranslatable(t[elem].text)
    THEN <<Unit(clean_text(Strip(t[elem].text)), elem, "text", "text")>>
    ELSE <<>>

CollectTail(t, elem) ==
    IF IsTranslatable(t[elem].tail)
    THEN <<Unit(clean_text(Strip(t[elem].tail)), elem, "tail", "tail")>>
    ELSE <<>>

RECURSIVE CollectAttrs(_, _)
CollectAttrs(attrib, elem) ==
    IF attrib = <<>> THEN <<>>
    ELSE LET a == Head(attrib)
         IN  (IF IsTranslatable(a.value) /\ a.name \notin ExcludedAttrs
              THEN <<Unit(clean_text(Strip(a.value)), elem, a.name, "attr")>>
              ELSE <<>>)
             \o CollectAttrs(Tail(attrib), elem)

RECURSIVE collect_from_element(_, _)
RECURSIVE CollectChildren(_, _)
CollectChildren(t, kids) ==
    IF kids = <<>> THEN <<>>
    ELSE collect_from_element(t, Head(kids)) \o CollectChildren(t, Tail(kids))

collect_from_element(t, elem) ==
    CollectText(t, elem) \o CollectTail(t, elem)
        \o CollectAttrs(t[elem].attrib, elem)
        \o CollectChildren(t, t[elem].children)

collect_translatable_text(t) == collect_from_element(t, 1)

\* ------------------------------------------------------------------- writer
HasAttr(attrib, name) == \E k \in 1..Len(attrib) : attrib[k].name = name

\* element.attrib[name] = value: a dict assignment, which replaces the value
\* of an existing key in place and appends a new key otherwise.
SetAttr(attrib, name, value) ==
    IF HasAttr(attrib, name)
    THEN [k \in 1..Len(attrib) |->
            IF attrib[k].name = name THEN Attr(name, value) ELSE attrib[k]]
    ELSE Append(attrib, Attr(name, value))

GetAttr(attrib, name) ==
    IF HasAttr(attrib, name)
    THEN attrib[CHOOSE k \in 1..Len(attrib) : attrib[k].name = name].value
    ELSE None

WriteSlotAlwaysAttribute(t, unit, translated_text) ==
    [t EXCEPT ![unit.element].attrib = SetAttr(@, unit.attr_name, translated_text)]

\* One iteration of the write-back loop.
WriteSlot(t, unit, translated_text) ==
    IF unit.attr_name = "text"
    THEN [t EXCEPT ![unit.element].text = translated_text]
    ELSE IF unit.attr_name = "tail"
    THEN [t EXCEPT ![unit.element].tail = translated_text]
    ELSE [t EXCEPT ![unit.element].attrib = SetAttr(@, unit.attr_name, translated_text)]

Min(a, b) == IF a <= b THEN a ELSE b

\* for (...), translated_text in zip(translations_needed, translated_texts):
\* the pairs 1..min(len, len), in order.
RECURSIVE UpdateFrom(_, _, _, _)
UpdateFrom(t, units, texts, k) ==
    IF k > Min(Len(units), Len(texts)) THEN t
    ELSE UpdateFrom(WriteSlot(t, units[k], texts[k]), units, texts, k + 1)

UpdateTree(t, units, texts) == UpdateFrom(t, units, texts, 1)

\* --------------------------------------------------------------- translator
\* The external translator is opaque; its translation of s is modelled as s
\* with a mark in front, so that a translation differs from its source.
Urdu(s) == <<"U">> \o s

\* translator.translate(batch, dest='ur', src='en') when it succeeds, and the
\* .text of each result.
TranslateBatch(batch) == [k \in 1..Len(batch) |-> Urdu(batch[k])]

\* texts[i:i + batch_size] with the 0-based i of the code.
BatchSliceOverlapping(texts, start, size) ==
    SubSeq(texts, start + 1, Min(start + size + 1, Len(texts)))

BatchSlice(texts, start, size) ==
    SubSeq(texts, start + 1, Min(start + size, Len(texts)))

\* -------------------------------------------------------------------- paths
StringsXml == <<"s", "t", "r", "i", "n", "g", "s", ".", "x", "m", "l">>
DotXml == <<".", "x", "m", "l">>
Script == <<"t", ".", "p", "y">>

\* The input paths and the explicit output path tried.
InputPaths ==
    { StringsXml,
      <<"S", ".", "X", "M", "L">>,
      <<"a", ".", "b", ".", "x", "m", "l">>,
      <<"d", ".", "d", "/", "s", ".", "x", "m", "l">>,
      <<"d", ".", "d", "/", ".", "x", "m", "l">>,
      DotXml,
      <<".", ".", "x", "m", "l">>,
      <<"s", ".", "t", "x", "t">> }

ExplicitOutput == <<"o", "/", "u", ".", "x", "m", "l">>

ArgvsOver(paths) ==
    {<<Script>>} \cup {<<Script, p>> : p \in paths}
        \cup {<<Script, p, ExplicitOutput>> : p \in paths}

\* str.lower() on the characters of the model.
LowerChar(c) ==
    CASE c = "S" -> "s" [] c = "X" -> "x" [] c = "M" -> "m" [] c = "L" -> "l"
      [] OTHER -> c

Lower(s) == [k \in 1..Len(s) |-> LowerChar(s[k])]

\* s.endswith(suffix)
EndsWith(s, suffix) ==
    /\ Len(s) >= Len(suffix)
    /\ SubSeq(s, Len(s) - Len(suffix) + 1, Len(s)) = suffix

\* str.rfind(c) + 1: the last position of c in s, 0 when there is none.
RFind(s, c) ==
    IF \E k \in 1..Len(s) : s[k] = c
    THEN CHOOSE k \in 1..Len(s) : s[k] = c /\ \A m \in (k + 1)..Len(s) : s[m] # c
    ELSE 0

SplitextRootAtFirstDot(p) ==
    IF \E k \in 1..Len(p) : p[k] = "."
    THEN SubSeq(p, 1, (CHOOSE k \in 1..Len(p) :
                          p[k] = "." /\ \A m \in 1..(k - 1) : p[m] # ".") - 1)
    ELSE p

\* os.path.splitext(p)[0]: p up to its last dot, when that dot lies in the
\* last path component and a character other than a dot precedes it there.
SplitextRoot(p) ==
    LET sepIndex == RFind(p, "/")
        dotIndex == RFind(p, ".")
    IN  IF /\ dotIndex > sepIndex
           /\ \E k \in (sepIndex + 1)..(dotIndex - 1) : p[k] # "."
        THEN SubSeq(p, 1, dotIndex - 1)
        ELSE p

\* ---------------------------------------------------------------- timestamp
DigitChars == <<"0", "1", "2", "3", "4", "5", "6", "7", "8", "9">>

\* The decimal digits of n, zero-padded to the given width.
RECURSIVE Pad(_, _)
Pad(n, width) ==
    IF width = 0 THEN <<>>
    ELSE Pad(n \div 10, width - 1) \o <<DigitChars[(n % 10) + 1]>>

\* The values datetime.now() takes in the model.
Morning ==
    [year |-> 2026, month |-> 11, day |-> 5, hour |-> 9, minute |-> 7, second |-> 30]

Clock ==
    { Morning,
      [year |-> 2025, month |-> 1, day |-> 31, hour |-> 23, minute |-> 59, second |-> 0] }

\* now.strftime('%Y%m%d_%H%M%S')
Strftime(now) ==
    Pad(now.year, 4) \o Pad(now.month, 2) \o Pad(now.day, 2) \o <<"_">>
        \o Pad(now.hour, 2) \o Pad(now.minute, 2) \o Pad(now.second, 2)

\* f"{os.path.splitext(input_file)[0]}_urdu_{...}.xml"
DefaultOutputName(path, now) ==
    SplitextRoot(path) \o <<"_", "u", "r", "d", "u", "_">> \o Strftime(now) \o DotXml

\* ------------------------------------------------------------------ actions
InitWith(argvs, inputs, clocks) ==
    /\ pc = "main"
    /\ argv \in argvs
    /\ input_xml \in inputs
    /\ clock \in clocks
    /\ batch_size \in BatchSizes
    /\ input_file = None
    /\ output_file = None
    /\ tree = NoTree
    /\ parsed = NoTree
    /\ translations_needed = <<>>
    /\ texts_to_translate = <<>>
    /\ i = 0
    /\ translations = <<>>
    /\ translated_texts = <<>>
    /\ calls = <<>>
    /\ outcomes = <<>>
    /\ log = <<>>
    /\ messages = <<>>
    /\ written = NoFile

\* The command lines of the main specification.
MainArgvs ==
    { <<Script>>,
      <<Script, <<"s", ".", "t", "x", "t">> >>,
      <<Script, StringsXml>> }

Init == InitWith(MainArgvs, Docs \cup {Malformed}, {Morning})

\* The documents of the specification that varies the paths.
NamingDocs ==
    { d \in DocsOfSize(2) :
        \/ Len(collect_translatable_text(d)) = 0
        \/ Len(collect_translatable_text(d)) = 3 }

InitNaming == InitWith(ArgvsOver(InputPaths), NamingDocs \cup {Malformed}, Clock)

Exit1 ==
    /\ pc' = "exit1"
    /\ UNCHANGED <<argv, input_xml, clock, batch_size, input_file, output_file, tree,
                   parsed, translations_needed, texts_to_translate, i, translations,
                   translated_texts, calls, outcomes, log, messages, written>>

\* main: no input path on the command line.
MainUsage ==
    /\ pc = "main"
    /\ Len(argv) < 2
    /\ Exit1

\* main: os.path.exists(input_file) is false (the file system decides).
MainInputMissing ==
    /\ pc = "main"
    /\ Len(argv) >= 2
    /\ Exit1

\* main: the input path exists and does not end in .xml.
MainNotXml ==
    /\ pc = "main"
    /\ Len(argv) >= 2
    /\ ~EndsWith(Lower(argv[2]), DotXml)
    /\ Exit1

\* main: the checks pass and translate_xml_to_urdu is called.
MainRun ==
    /\ pc = "main"
    /\ Len(argv) >= 2
    /\ EndsWith(Lower(argv[2]), DotXml)
    /\ input_file' = argv[2]
    /\ output_file' = IF Len(argv) > 2 THEN argv[3] ELSE None
    /\ pc' = "name"
    /\ UNCHANGED <<argv, input_xml, clock, batch_size, tree, parsed, translations_needed,
                   texts_to_translate, i, translations, translated_texts, calls,
                   outcomes, log, messages, written>>

\* translate_xml_to_urdu: the output name is generated when none was given.
GenerateOutputName ==
    /\ pc = "name"
    /\ IF output_file = None
       THEN output_file' = DefaultOutputName(input_file, clock)
       ELSE UNCHANGED output_file
    /\ pc' = "parse"
    /\ UNCHANGED <<argv, input_xml, clock, batch_size, input_file, tree, parsed,
                   translations_needed, texts_to_translate, i, translations,
                   translated_texts, calls, outcomes, log, messages, written>>

\* The input file is parsed.
Parse ==
    /\ pc = "parse"
    /\ input_xml # Malformed
    /\ tree' = input_xml
    /\ parsed' = input_xml
    /\ pc' = "collect"
    /\ UNCHANGED <<argv, input_xml, clock, batch_size, input_file, output_file,
                   translations_needed, texts_to_translate, i, translations,
                   translated_texts, calls, outcomes, log, messages, written>>

\* Parsing raises: the handler of translate_xml_to_urdu exits with status 1.
ParseError ==
    /\ pc = "parse"
    /\ input_xml = Malformed
    /\ Exit1

\* The translatable text is collected; with none, the function returns.
Collect ==
    /\ pc = "collect"
    /\ translations_needed' = collect_translatable_text(tree)
    /\ IF translations_needed' = <<>>
       THEN /\ messages' = Append(messages, "no_text_found")
            /\ pc' = "done"
            /\ UNCHANGED texts_to_translate
       ELSE /\ messages' = Append(messages, "found")
            /\ texts_to_translate' =
                 [k \in 1..Len(translations_needed') |-> translations_needed'[k].text]
            /\ pc' = "batch"
    /\ UNCHANGED <<argv, input_xml, clock, batch_size, input_file, output_file, tree, parsed,
                   i, translations, translated_texts, calls, outcomes, log, written>>

BatchFrame ==
    UNCHANGED <<argv, input_xml, clock, batch_size, input_file, output_file, tree, parsed,
                translations_needed, texts_to_translate, translated_texts, messages,
                written, pc>>

\* A loop iteration whose try block completes: the call returns, the
\* results are appended and the loop sleeps.
BatchOk ==
    /\ pc = "batch"
    /\ i < Len(texts_to_translate)
    /\ LET batch == BatchSlice(texts_to_translate, i, batch_size)
       IN  /\ calls' = Append(calls, batch)
           /\ translations' = translations \o TranslateBatch(batch)
           /\ log' = log \o <<"call", "sleep">>
           /\ outcomes' = Append(outcomes, "ok")
    /\ i' = i + batch_size
    /\ BatchFrame

\* A loop iteration whose translation call raises: the handler appends the
\* batch itself.
BatchCallRaises ==
    /\ pc = "batch"
    /\ i < Len(texts_to_translate)
    /\ LET batch == BatchSlice(texts_to_translate, i, batch_size)
       IN  /\ calls' = Append(calls, batch)
           /\ translations' = translations \o batch
           /\ log' = Append(log, "call")
           /\ outcomes' = Append(outcomes, "call_raised")
    /\ i' = i + batch_size
    /\ BatchFrame

\* A loop iteration whose call returns and where reading the text of
\* result j + 1 raises: extend has appended j texts, and the handler appends
\* the batch itself.
BatchResultRaises ==
    /\ pc = "batch"
    /\ i < Len(texts_to_translate)
    /\ LET batch == BatchSlice(texts_to_translate, i, batch_size)
       IN  /\ calls' = Append(calls, batch)
           /\ \E j \in 0..(Len(batch) - 1) :
                translations' =
                    translations \o SubSeq(TranslateBatch(batch), 1, j) \o batch
           /\ log' = Append(log, "call")
           /\ outcomes' = Append(outcomes, "result_raised")
    /\ i' = i + batch_size
    /\ BatchFrame

\* The loop ends and batch_translate returns its accumulator.
BatchReturn ==
    /\ pc = "batch"
    /\ i >= Len(texts_to_translate)
    /\ translated_texts' = translations
    /\ pc' = "update"
    /\ UNCHANGED <<argv, input_xml, clock, batch_size, input_file, output_file, tree, parsed,
                   translations_needed, texts_to_translate, i, translations, calls,
                   outcomes, log, messages, written>>

\* The write-back loop.
Update ==
    /\ pc = "update"
    /\ tree' = UpdateTree(tree, translations_needed, translated_texts)
    /\ pc' = "write"
    /\ UNCHANGED <<argv, input_xml, clock, batch_size, input_file, output_file, parsed,
                   translations_needed, texts_to_translate, i, translations,
                   translated_texts, calls, outcomes, log, messages, written>>

\* The output directory is created and the tree is written to the output
\* file (the indentation added by pretty-printing is not represented).
WriteOutput ==
    /\ pc = "write"
    /\ written' = tree
    /\ messages' = Append(messages, "completed")
    /\ pc' = "done"
    /\ UNCHANGED <<argv, input_xml, clock, batch_size, input_file, output_file, tree, parsed,
                   translations_needed, texts_to_translate, i, translations,
                   translated_texts, calls, outcomes, log>>

\* Creating the directory or opening the output file raises.
WriteError ==
    /\ pc = "write"
    /\ Exit1

Next ==
    \/ MainUsage
    \/ MainInputMissing
    \/ MainNotXml
    \/ MainRun
    \/ GenerateOutputName
    \/ Parse
    \/ ParseError
    \/ Collect
    \/ BatchOk
    \/ BatchCallRaises
    \/ BatchResultRaises
    \/ BatchReturn
    \/ Update
    \/ WriteOutput
    \/ WriteError

Spec == Init /\ [][Next]_vars

SpecNaming == InitNaming /\ [][Next]_vars

\* ------------------------------------------------------------------- claims
N == Len(translations_needed)

\* The 1-based number of the batch that holds the string at index k.
BatchOf(k) == ((k - 1) \div batch_size) + 1

\* The result the loop iteration of index k's batch owes for index k: the
\* translation when the iteration succeeded, the source string otherwise.
ResultFor(k) ==
    IF outcomes[BatchOf(k)] = "ok"
    THEN Urdu(texts_to_translate[k])
    ELSE texts_to_translate[k]

\* C1: when the write-back loop starts, batch_translate has returned exactly
\* one string per collected unit, and the string at index k is the
\* translation or the fallback for the unit at index k, whatever the outcome
\* of each batch was.
C1_LockStep ==
    pc = "update" =>
        /\ Len(translated_texts) = N
        /\ \A k \in 1..N : translated_texts[k] = ResultFor(k)

\* C2: when the loop has ended, every batch was sent, the entries of a batch
\* whose call raised are that batch's own input strings, and the entries of
\* a batch that succeeded are the translator's results.
C2_BatchFallback ==
    pc = "update" =>
        /\ Len(calls) * batch_size >= N
        /\ \A k \in 1..N :
            /\ k <= Len(translated_texts)
            /\ outcomes[BatchOf(k)] = "call_raised"
                 => translated_texts[k] = texts_to_translate[k]
            /\ outcomes[BatchOf(k)] = "ok"
                 => translated_texts[k] = Urdu(texts_to_translate[k])

\* The field of tree t a unit was collected from.
FieldOf(t, unit) ==
    IF unit.origin = "text" THEN t[unit.element].text
    ELSE IF unit.origin = "tail" THEN t[unit.element].tail
    ELSE GetAttr(t[unit.element].attrib, unit.attr_name)

\* C3: after the write-back loop, the field each unit was collected from
\* (the text, the tail, or the attribute of the unit's name) holds the
\* string the loop paired with that unit.
C3_WriteBackTargetsCollectedField ==
    pc = "write" =>
        \A k \in 1..N :
            /\ k <= Len(translated_texts)
            /\ FieldOf(tree, translations_needed[k]) = translated_texts[k]

\* The inclusion rule, stated on the value itself: the value is present, has
\* a character that is not whitespace, and has no '%'.
Eligible(value) ==
    /\ value # None
    /\ \E k \in 1..Len(value) : value[k] # " "
    /\ \A k \in 1..Len(value) : value[k] # "%"

UnitsFrom(elem, origin, name) ==
    {k \in 1..N :
        /\ translations_needed[k].element = elem
        /\ translations_needed[k].origin = origin
        /\ translations_needed[k].attr_name = name}

Collected == pc \in {"batch", "update", "write", "done"} /\ parsed # NoTree

\* C4: once collection is done, a node's text, a node's tail and an
\* attribute value each have exactly one unit when the value is eligible
\* (and, for an attribute, its name is none of name, id, identifier), and
\* no unit otherwise; and there are no other units.
C4_InclusionRule ==
    Collected =>
        /\ \A e \in DOMAIN parsed :
            /\ Cardinality(UnitsFrom(e, "text", "text")) =
                 (IF Eligible(parsed[e].text) THEN 1 ELSE 0)
            /\ Cardinality(UnitsFrom(e, "tail", "tail")) =
                 (IF Eligible(parsed[e].tail) THEN 1 ELSE 0)
            /\ \A a \in 1..Len(parsed[e].attrib) :
                 Cardinality(UnitsFrom(e, "attr", parsed[e].attrib[a].name)) =
                    (IF /\ Eligible(parsed[e].attrib[a].value)
                        /\ parsed[e].attrib[a].name \notin {"name", "id", "identifier"}
                     THEN 1 ELSE 0)
        /\ \A k \in 1..N :
            LET u == translations_needed[k]
            IN  /\ u.element \in DOMAIN parsed
                /\ \/ u.origin = "text" /\ u.attr_name = "text"
                   \/ u.origin = "tail" /\ u.attr_name = "tail"
                   \/ u.origin = "attr" /\ HasAttr(parsed[u.element].attrib, u.attr_name)

\* A text with a format specifier and an id attribute with a translatable
\* value are left out while other strings are collected.
C4_Witness ==
    /\ pc = "batch"
    /\ N >= 2
    /\ \E e \in DOMAIN parsed :
        /\ parsed[e].text # None
        /\ HasPercent(parsed[e].text)
        /\ UnitsFrom(e, "text", "text") = {}
    /\ \E e \in DOMAIN parsed :
        /\ GetAttr(parsed[e].attrib, "id") = <<"a", " ", "b">>
        /\ UnitsFrom(e, "attr", "id") = {}

\* C5: a run that collected nothing ends without a translation call, having
\* reported that no text was found, and with an output file that holds the
\* input document.
C5_EmptyInputShortCircuit ==
    (pc = "done" /\ N = 0) =>
        /\ calls = <<>>
        /\ \E k \in 1..Len(messages) : messages[k] = "no_text_found"
        /\ written = parsed

\* C6: the tree in memory and the tree written to the output file always
\* have the nodes, tags, attribute names and child order of the input.
C6_StructurePreserved ==
    /\ tree # NoTree => Structure(tree) = Structure(input_xml)
    /\ written # NoFile => Structure(written) = Structure(input_xml)

\* A document whose root has two children was written with changed strings.
C6_Witness ==
    /\ pc = "done"
    /\ written # NoFile
    /\ written # input_xml
    /\ Len(written[1].children) = 2
    /\ \E k \in 1..Len(outcomes) : outcomes[k] = "result_raised"

\* C7: no translation call follows another one without a pause in between.
C7_PauseBetweenCalls ==
    \A k \in 1..(Len(log) - 1) : ~(log[k] = "call" /\ log[k + 1] = "call")

\* ------------------------------------------------------------ output naming
IsDigit(c) == c \in {"0", "1", "2", "3", "4", "5", "6", "7", "8", "9"}

DigitValue(c) == CHOOSE d \in 0..9 : DigitChars[d + 1] = c

\* The number a sequence of digits denotes.
RECURSIVE Number(_)
Number(ds) ==
    IF ds = <<>> THEN 0
    ELSE 10 * Number(SubSeq(ds, 1, Len(ds) - 1)) + DigitValue(ds[Len(ds)])

\* ts has the form YYYYMMDD_HHMMSS and denotes a time of the clock.
IsTimestamp(ts) ==
    /\ Len(ts) = 15
    /\ ts[9] = "_"
    /\ \A k \in (1..15) \ {9} : IsDigit(ts[k])
    /\ [year |-> Number(SubSeq(ts, 1, 4)), month |-> Number(SubSeq(ts, 5, 6)),
        day |-> Number(SubSeq(ts, 7, 8)), hour |-> Number(SubSeq(ts, 10, 11)),
        minute |-> Number(SubSeq(ts, 12, 13)),
        second |-> Number(SubSeq(ts, 14, 15))] \in Clock

\* out is stem, then tag, then a timestamp, then ".xml".
HasForm(out, stem, tag) ==
    LET at == Len(stem) + Len(tag)
    IN  /\ Len(out) = at + 15 + 4
        /\ SubSeq(out, 1, Len(stem)) = stem
        /\ SubSeq(out, Len(stem) + 1, at) = tag
        /\ IsTimestamp(SubSeq(out, at + 1, at + 15))
        /\ SubSeq(out, at + 16, at + 19) = DotXml

\* The last component of p has only dots before its final extension, as in
\* ".xml": os.path.splitext finds no extension in such a name.
OnlyDotsBeforeExtension(p) ==
    \A k \in 1..(Len(p) - 4) :
        p[k] = "." \/ \E m \in k..(Len(p) - 4) : p[m] = "/"

\* The input path (which ends in a four-character extension) without its
\* extension; a name with only dots before the extension keeps it.
ExtensionRemoved(p) ==
    IF OnlyDotsBeforeExtension(p) THEN p ELSE SubSeq(p, 1, Len(p) - 4)

\* The run was given no output path and has generated one.
DefaultNamed == input_file # None /\ pc # "name" /\ Len(argv) = 2

\* C8 as stated: the generated output path is the input path without its
\* extension, then "_ur_", a timestamp YYYYMMDD_HHMMSS and ".xml".
C8_DefaultNameUr ==
    DefaultNamed =>
        HasForm(output_file, ExtensionRemoved(input_file), <<"_", "u", "r", "_">>)

\* C8 as amended: the generated output path is the input path without its
\* extension, then "_urdu_", a timestamp YYYYMMDD_HHMMSS and ".xml".
C8_DefaultNameUrdu ==
    DefaultNamed =>
        HasForm(output_file, ExtensionRemoved(input_file),
                <<"_", "u", "r", "d", "u", "_">>)

\* strings.xml was given alone and the run wrote to
\* strings_urdu_20261105_090730.xml.
C8_Witness ==
    /\ pc = "done"
    /\ written # NoFile
    /\ argv = <<Script, StringsXml>>
    /\ output_file =
         <<"s", "t", "r", "i", "n", "g", "s", "_", "u", "r", "d", "u", "_",
           "2", "0", "2", "6", "1", "1", "0", "5", "_", "0", "9", "0", "7", "3", "0",
           ".", "x", "m", "l">>

\* ----------------------------------------------------------------- batching
RECURSIVE Concat(_)
Concat(seqs) == IF seqs = <<>> THEN <<>> ELSE Head(seqs) \o Concat(Tail(seqs))

\* n = ceil(total / size)
IsCeilDiv(n, total, size) == (n - 1) * size < total /\ total <= n * size

\* C9: while the loop runs, the batches sent so far are consecutive pieces
\* of the input of exactly batch_size strings (the last one of at most
\* batch_size, and not empty); when the loop has ended there were exactly
\* ceil(N / batch_size) calls and their batches make up the input.
C9_Batching ==
    pc \in {"batch", "update"} =>
        /\ Len(outcomes) = Len(calls)
        /\ \A b \in 1..Len(calls) :
            /\ Len(calls[b]) >= 1
            /\ Len(calls[b]) <= batch_size
            /\ b < Len(calls) => Len(calls[b]) = batch_size
        /\ Len(Concat(calls)) <= Len(texts_to_translate)
        /\ Concat(calls) = SubSeq(texts_to_translate, 1, Len(Concat(calls)))
        /\ pc = "update" =>
            /\ IsCeilDiv(Len(calls), Len(texts_to_translate), batch_size)
            /\ Concat(calls) = texts_to_translate

\* The loop ended after several batches, the last one shorter than the
\* others, and one of them failed.
C9_Witness ==
    /\ pc = "update"
    /\ Len(calls) >= 2
    /\ Len(calls[Len(calls)]) < batch_size
    /\ \E b \in 1..Len(outcomes) : outcomes[b] = "call_raised"

\* -------------------------------------------------------------------- frame
\* C10: after the write-back loop, every text, tail and attribute value
\* from which no unit was collected holds the value it had when parsed.
C10_UncollectedFieldsUnchanged ==
    pc = "write" =>
        \A e \in DOMAIN parsed :
            /\ UnitsFrom(e, "text", "text") = {} => tree[e].text = parsed[e].text
            /\ UnitsFrom(e, "tail", "tail") = {} => tree[e].tail = parsed[e].tail
            /\ \A a \in 1..Len(parsed[e].attrib) :
                 UnitsFrom(e, "attr", parsed[e].attrib[a].name) = {}
                    => GetAttr(tree[e].attrib, parsed[e].attrib[a].name)
                         = parsed[e].attrib[a].value

====
